---- MODULE Spec2Model ----
(***************************************************************************)
(* Sierpinski Triangle Emulator (src/src/main.rs): the chaos-game point    *)
(* store of SierpinskiGraph, the message handler of SierpinskiEmulator,    *)
(* the canvas event handler and the cached paint pass.                     *)
(*                                                                         *)
(* Coordinates are f32 in the source.  Here a coordinate is an integer     *)
(* number of 1/Scale pixels, Scale a power of two, and pointer positions   *)
(* are whole pixels, so every value that the halvings of a run can         *)
(* produce is representable and (a + b) / 2 loses no bit, as in f32 for    *)
(* whole-pixel vertices below 2^10 and fewer than 14 halvings.             *)
(***************************************************************************)
EXTENDS Integers, Sequences, FiniteSets

VARIABLES
    graph,      \* SierpinskiEmulator.graph: the SierpinskiGraph fields
    handler,    \* which handler ran last: "new", "canvas", "update", "draw"
    message,    \* the Message of the last handler run (NoMessage if none)
    status,     \* event::Status the canvas handler returned, "-" if it did not run
    geom,       \* the geometry the last draw returned
    rebuilt,    \* whether the last draw ran the closure of cache.draw
    outcome,    \* "ok", or "panic" once a handler has panicked
    input,      \* the event and cursor of the canvas handler, where recorded
    drawn       \* the indices the random source returned since the last reset

vars == <<graph, handler, message, status, geom, rebuilt, outcome, input, drawn>>

----------------------------------------------------------------------------
(* Bounds of the model *)

\* largest slider value offered (the source offers 0..=10000)
MaxSlider == 2
\* largest number of fixed vertices a run places
MaxFix == 2

\* number of points the three-vertex scenario grows to
ScenarioIter == 5

Scale == 2 ^ (MaxSlider + ScenarioIter)

----------------------------------------------------------------------------
(* Values *)

Point(px, py) == [x |-> px * Scale, y |-> py * Scale]

ORIGIN == Point(0, 0)

BoundWidth == 600
BoundHeight == 600

Size(w, h) == [width |-> w, height |-> h]

\* SierpinskiGraph.bound
bound == Size(BoundWidth, BoundHeight)

\* the layout rectangle of the canvas in the window, in pixels
CanvasBounds == [x |-> 100, y |-> 0, width |-> BoundWidth, height |-> BoundHeight]

\* sizes the paint pass is asked to draw at
CanvasSizes == {bound, Size(300, 300)}

\* cursor positions in the window, in pixels; the last two lie off the canvas
CursorPositions ==
    { [x |-> 200, y |-> 100], [x |-> 100, y |-> 0], [x |-> 300, y |-> 0],
      [x |-> 50, y |-> 10], [x |-> 200, y |-> 600] }

Unavailable == [x |-> -1, y |-> -1]

Cursors == CursorPositions \cup {Unavailable}

Events == {"LeftPressed", "RightPressed", "LeftReleased", "Keyboard"}

NoInput == [event |-> "-", cursor |-> Unavailable]

NoMessage == [type |-> "None", iter |-> 0, point |-> ORIGIN]
SetMaxIterMsg(i) == [type |-> "SetMaxIter", iter |-> i, point |-> ORIGIN]
SetCurIterMsg(i) == [type |-> "SetCurIter", iter |-> i, point |-> ORIGIN]
DrawCurIterMsg(i) == [type |-> "DrawCurIter", iter |-> i, point |-> ORIGIN]
AddFixPointMsg(p) == [type |-> "AddFixPoint", iter |-> 0, point |-> p]
RemoveFixPointMsg == [type |-> "RemoveFixPoint", iter |-> 0, point |-> ORIGIN]

SliderRange == 0 .. MaxSlider

NoGeometry == [border |-> Size(0, 0), points |-> << >>, circles |-> << >>]

EmptyCache == [filled |-> FALSE, bounds |-> Size(0, 0), geometry |-> NoGeometry]

Min(a, b) == IF a < b THEN a ELSE b
Max(a, b) == IF a > b THEN a ELSE b

Ok(g) == [graph |-> g, outcome |-> "ok"]
Panic(g) == [graph |-> g, outcome |-> "panic"]

----------------------------------------------------------------------------
(* SierpinskiGraph *)

SierpinskiGraph_new ==
    [ max_iter |-> 0,
      cur_iter |-> 0,
      fix_points |-> << >>,
      random_points |-> << >>,
      cache |-> EmptyCache ]

redraw(g) == [g EXCEPT !.cache = EmptyCache]

\* mutant of midpoint: a + b / 2, only the second operand is halved
midpoint_precedence(a, b) == [x |-> a.x + b.x \div 2, y |-> a.y + b.y \div 2]

midpoint(a, b) == [x |-> (a.x + b.x) \div 2, y |-> (a.y + b.y) \div 2]

\* mutant of cur_point: the base is the last point that is drawn, so it
\* moves with cur_iter
cur_point_last_drawn(g) ==
    LET n == IF g.cur_iter < Len(g.random_points)
             THEN g.cur_iter ELSE Len(g.random_points)
    IN  IF n > 0 THEN g.random_points[n] ELSE g.fix_points[1]

\* mutant of cur_point: the seed is the last fixed vertex, not the first
cur_point_last_vertex(g) ==
    IF g.random_points # << >>
    THEN g.random_points[Len(g.random_points)]
    ELSE g.fix_points[Len(g.fix_points)]

\* Vec::last().or_else(|| Some(&fix_points[0]))
cur_point(g) ==
    IF g.random_points # << >>
    THEN g.random_points[Len(g.random_points)]
    ELSE g.fix_points[1]

\* dest_point_idx is the value gen_range(0..fix_points.len()) returned
gen_rand_point(g, dest_point_idx) ==
    midpoint(g.fix_points[dest_point_idx + 1], cur_point(g))

\* gen_range panics on an empty range
gen_range_panics(n) == n = 0

----------------------------------------------------------------------------
(* SierpinskiEmulator::update, one operator per match arm *)

\* the while loop of the SetMaxIter arm; rng holds the indices the random
\* source returns, in order
RECURSIVE while_push(_, _, _)
while_push(g, max_iter, rng) ==
    IF Len(g.random_points) < max_iter
    THEN IF gen_range_panics(Len(g.fix_points))
         THEN Panic(g)
         ELSE while_push(
                [g EXCEPT !.random_points = Append(@, gen_rand_point(g, Head(rng)))],
                max_iter, Tail(rng))
    ELSE Ok(g)

\* mutant of update_SetMaxIter: the sequence is resized to max_iter, so a
\* lower value drops points
update_SetMaxIter_truncate(g, max_iter, rng) ==
    LET r == while_push([g EXCEPT !.max_iter = max_iter], max_iter, rng)
    IN  [r EXCEPT !.graph.random_points = SubSeq(@, 1, Min(max_iter, Len(@)))]

\* mutant of update_SetMaxIter: an empty vertex set is guarded, nothing is
\* generated and nothing fails
update_SetMaxIter_guarded(g, max_iter, rng) ==
    IF g.fix_points = << >>
    THEN Ok([g EXCEPT !.max_iter = max_iter])
    ELSE while_push([g EXCEPT !.max_iter = max_iter], max_iter, rng)

update_SetMaxIter(g, max_iter, rng) ==
    while_push([g EXCEPT !.max_iter = max_iter], max_iter, rng)

\* mutant of update_SetCurIter: the value is stored without the clamp
update_SetCurIter_unclamped(g, cur_iter) ==
    Ok([g EXCEPT !.cur_iter = cur_iter])

\* mutant of update_SetCurIter: the points beyond cur_iter are dropped
update_SetCurIter_truncates(g, cur_iter) ==
    LET c == IF cur_iter > g.max_iter THEN g.max_iter ELSE cur_iter
    IN  Ok([g EXCEPT !.cur_iter = c, !.random_points = SubSeq(@, 1, c)])

\* mutant of update_SetCurIter: max_iter follows a lower cur_iter
update_SetCurIter_lowers_max(g, cur_iter) ==
    IF cur_iter > g.max_iter
    THEN Ok([g EXCEPT !.cur_iter = g.max_iter])
    ELSE Ok([g EXCEPT !.cur_iter = cur_iter, !.max_iter = cur_iter])

update_SetCurIter(g, cur_iter) ==
    IF cur_iter > g.max_iter
    THEN Ok([g EXCEPT !.cur_iter = g.max_iter])
    ELSE Ok([g EXCEPT !.cur_iter = cur_iter])

\* mutant of update_AddFixPoint: the generated points are kept
update_AddFixPoint_keeps_points(g, point) ==
    Ok([g EXCEPT !.fix_points = Append(@, point),
                 !.max_iter = 0,
                 !.cur_iter = 0])

update_AddFixPoint(g, point) ==
    Ok([g EXCEPT !.fix_points = Append(@, point),
                 !.random_points = << >>,
                 !.max_iter = 0,
                 !.cur_iter = 0])

\* Vec::pop: removes the last element, does nothing on an empty vector
pop(v) == IF v = << >> THEN v ELSE SubSeq(v, 1, Len(v) - 1)

\* mutant of update_RemoveFixPoint: remove(len - 1), which panics on an
\* empty vector
update_RemoveFixPoint_unchecked(g) ==
    IF g.fix_points = << >>
    THEN Panic(g)
    ELSE Ok([g EXCEPT !.fix_points = pop(@),
                      !.random_points = << >>,
                      !.max_iter = 0,
                      !.cur_iter = 0])

\* mutant of update_RemoveFixPoint: the vertex is popped, nothing is reset
update_RemoveFixPoint_no_reset(g) ==
    Ok([g EXCEPT !.fix_points = pop(@)])

update_RemoveFixPoint(g) ==
    Ok([g EXCEPT !.fix_points = pop(@),
                 !.random_points = << >>,
                 !.max_iter = 0,
                 !.cur_iter = 0])

update_DrawCurIter(g, cur_iter) ==
    Ok([g EXCEPT !.cur_iter = cur_iter])

\* mutant of update_redraw: the cache is left as it is
update_redraw_skipped(g) == g

\* the redraw every arm ends in; a panic in the arm unwinds past it
update_redraw(g) == redraw(g)

update(g, m, rng) ==
    LET r == CASE m.type = "SetMaxIter" -> update_SetMaxIter(g, m.iter, rng)
               [] m.type = "SetCurIter" -> update_SetCurIter(g, m.iter)
               [] m.type = "AddFixPoint" -> update_AddFixPoint(g, m.point)
               [] m.type = "RemoveFixPoint" -> update_RemoveFixPoint(g)
               [] m.type = "DrawCurIter" -> update_DrawCurIter(g, m.iter)
    IN  IF r.outcome = "ok" THEN Ok(update_redraw(r.graph)) ELSE r

\* the values the random source can return during update(g, m, _)
RngDraws(g, m) ==
    IF m.type = "SetMaxIter" /\ m.iter > Len(g.random_points) /\ g.fix_points # << >>
    THEN [1 .. (m.iter - Len(g.random_points)) -> 0 .. (Len(g.fix_points) - 1)]
    ELSE {<< >>}

----------------------------------------------------------------------------
(* SierpinskiEmulator::view: the widgets offered for the state *)

\* mutant of view: the sliders are offered whatever the vertex set
view_always_sliders(g) == {"Canvas", "MaxIterSlider", "CurIterSlider"}

view(g) ==
    LET fix_point_is_empty == g.fix_points = << >>
    IN  {"Canvas"} \cup
        (IF ~fix_point_is_empty THEN {"MaxIterSlider", "CurIterSlider"} ELSE {})

----------------------------------------------------------------------------
(* Program::update of the canvas *)

\* Cursor::position_in: the position relative to bounds, if inside them
contains(b, p) ==
    /\ b.x <= p.x /\ p.x < b.x + b.width
    /\ b.y <= p.y /\ p.y < b.y + b.height

\* mutant of position_in: the position of an available cursor, wherever it is
position_in_unchecked(cursor, b) ==
    IF cursor # Unavailable
    THEN <<Point(cursor.x - b.x, cursor.y - b.y)>>
    ELSE << >>

position_in(cursor, b) ==
    IF cursor # Unavailable /\ contains(b, cursor)
    THEN <<Point(cursor.x - b.x, cursor.y - b.y)>>
    ELSE << >>

\* returns (event::Status, Option<Message>), None being NoMessage
canvas_update(event, bounds, cursor) ==
    LET pos == position_in(cursor, bounds)
    IN  IF pos = << >>
        THEN [status |-> "Ignored", message |-> NoMessage]
        ELSE LET cursor_position == pos[1]
             IN  CASE event = "LeftPressed" ->
                        [status |-> "Captured", message |-> AddFixPointMsg(cursor_position)]
                   [] event = "RightPressed" ->
                        [status |-> "Captured", message |-> RemoveFixPointMsg]
                   [] event = "LeftReleased" ->
                        [status |-> "Captured", message |-> NoMessage]
                   [] OTHER ->
                        [status |-> "Ignored", message |-> NoMessage]

----------------------------------------------------------------------------
(* Program::draw and the geometry cache *)

\* what the closure handed to cache.draw strokes and fills
Geometry(g, size) ==
    [ border |-> size,
      points |-> SubSeq(g.random_points, 1, g.cur_iter),
      circles |-> g.fix_points ]

\* random_points[0..cur_iter] panics when cur_iter exceeds the length
slice_panics(g) == g.cur_iter > Len(g.random_points)

\* Cache::draw: the cached geometry if filled for the same size, else the
\* closure's result, which it stores
draw(g, size) ==
    IF g.cache.filled /\ g.cache.bounds = size
    THEN [graph |-> g, outcome |-> "ok", geom |-> g.cache.geometry, rebuilt |-> FALSE]
    ELSE IF slice_panics(g)
         THEN [graph |-> g, outcome |-> "panic", geom |-> NoGeometry, rebuilt |-> TRUE]
         ELSE LET fresh == Geometry(g, size)
              IN  [ graph |-> [g EXCEPT !.cache =
                                 [filled |-> TRUE, bounds |-> size, geometry |-> fresh]],
                    outcome |-> "ok", geom |-> fresh, rebuilt |-> TRUE ]

----------------------------------------------------------------------------
(* Actions *)

Init ==
    /\ graph = SierpinskiGraph_new
    /\ handler = "new"
    /\ message = NoMessage
    /\ status = "-"
    /\ geom = NoGeometry
    /\ rebuilt = FALSE
    /\ outcome = "ok"
    /\ input = NoInput
    /\ drawn = << >>

\* Application::update on message m
Deliver(m) ==
    \E rng \in RngDraws(graph, m) :
        LET r == update(graph, m, rng)
        IN  /\ graph' = r.graph
            /\ outcome' = r.outcome
            /\ handler' = "update"
            /\ message' = m
            /\ geom' = NoGeometry
            /\ rebuilt' = FALSE
            /\ drawn' = IF m.type \in {"AddFixPoint", "RemoveFixPoint"}
                        THEN << >>
                        ELSE IF r.outcome = "ok" THEN drawn \o rng ELSE drawn

\* a pointer or keyboard event reaches the canvas; a message it produces is
\* handed to Application::update before the next event.  record says whether
\* the step keeps the event and the cursor in input
CanvasEventStep(record) ==
    /\ outcome = "ok"
    /\ "Canvas" \in view(graph)
    /\ \E event \in Events, cursor \in Cursors :
          LET r == canvas_update(event, CanvasBounds, cursor)
          IN  /\ r.message.type = "AddFixPoint" => Len(graph.fix_points) < MaxFix
              /\ status' = r.status
              /\ input' = IF record THEN [event |-> event, cursor |-> cursor]
                                     ELSE NoInput
              /\ IF r.message = NoMessage
                 THEN /\ handler' = "canvas"
                      /\ message' = NoMessage
                      /\ geom' = NoGeometry
                      /\ rebuilt' = FALSE
                      /\ UNCHANGED <<graph, outcome, drawn>>
                 ELSE Deliver(r.message)

CanvasEvent == CanvasEventStep(FALSE)

CanvasInput == CanvasEventStep(TRUE)

MaxIterSlider ==
    /\ outcome = "ok"
    /\ "MaxIterSlider" \in view(graph)
    /\ \E max_iter \in SliderRange : Deliver(SetMaxIterMsg(max_iter))
    /\ status' = "-"
    /\ input' = NoInput

CurIterSlider ==
    /\ outcome = "ok"
    /\ "CurIterSlider" \in view(graph)
    /\ \E cur_iter \in SliderRange : Deliver(SetCurIterMsg(cur_iter))
    /\ status' = "-"
    /\ input' = NoInput

Paint ==
    /\ outcome = "ok"
    /\ \E size \in CanvasSizes :
          LET r == draw(graph, size)
          IN  /\ graph' = r.graph
              /\ outcome' = r.outcome
              /\ geom' = r.geom
              /\ rebuilt' = r.rebuilt
    /\ handler' = "draw"
    /\ message' = NoMessage
    /\ UNCHANGED drawn
    /\ status' = "-"
    /\ input' = NoInput

\* the program driven by its user interface
Next == CanvasEvent \/ MaxIterSlider \/ CurIterSlider \/ Paint

Spec == Init /\ [][Next]_vars

\* the user interface without the cur_iter slider, the inputs of the canvas
\* handler recorded
NextCanvas == CanvasInput \/ MaxIterSlider \/ Paint

SpecCanvas == Init /\ [][NextCanvas]_vars

\* the positions a click on the canvas can report
VertexPoints ==
    { position_in(c, CanvasBounds)[1] :
        c \in {d \in CursorPositions : contains(CanvasBounds, d)} }

\* every value of the Message enum, within the bounds
Messages ==
    {SetMaxIterMsg(i) : i \in SliderRange}
    \cup {SetCurIterMsg(i) : i \in SliderRange}
    \cup {DrawCurIterMsg(i) : i \in SliderRange}
    \cup {AddFixPointMsg(p) : p \in VertexPoints}
    \cup {RemoveFixPointMsg}

\* Application::update called with any message, whatever the view offers
Update ==
    /\ outcome = "ok"
    /\ \E m \in Messages :
          /\ m.type = "AddFixPoint" => Len(graph.fix_points) < MaxFix
          /\ Deliver(m)
    /\ status' = "-"
    /\ input' = NoInput

NextMsg == Update \/ Paint

SpecMsg == Init /\ [][NextMsg]_vars

\* the three vertices of the scenario, in the order they are added
ScenarioVertices == <<Point(100, 100), Point(0, 0), Point(200, 0)>>

\* the scenario: the three vertices are added to the empty set one after the
\* other, then SetMaxIter(ScenarioIter) grows the sequence
Scenario ==
    /\ outcome = "ok"
    /\ \/ /\ Len(graph.fix_points) < Len(ScenarioVertices)
          /\ graph.fix_points = SubSeq(ScenarioVertices, 1, Len(graph.fix_points))
          /\ Deliver(AddFixPointMsg(ScenarioVertices[Len(graph.fix_points) + 1]))
       \/ /\ graph.fix_points = ScenarioVertices
          /\ Deliver(SetMaxIterMsg(ScenarioIter))
    /\ status' = "-"
    /\ input' = NoInput

\* any message, and the scenario beyond the bounds of the messages
NextScenario == Update \/ Paint \/ Scenario

SpecScenario == Init /\ [][NextScenario]_vars

----------------------------------------------------------------------------
(* Properties *)

IsPrefix(s, t) == Len(s) <= Len(t) /\ SubSeq(t, 1, Len(s)) = s

Updated(type) == handler = "update" /\ message.type = type
Updating(type) == handler' = "update" /\ message'.type = type

\* C1: in every state the user interface can reach, 0 <= cur_iter <= max_iter.
\* The code breaks it: lowering max_iter leaves a larger cur_iter in place.
C1_CurIterWithinMaxIter ==
    0 <= graph.cur_iter /\ graph.cur_iter <= graph.max_iter

\* C2: a step that processes AddFixPoint(p) or RemoveFixPoint ends with no
\* generated point and both counters zero; AddFixPoint appends p to the
\* vertex set, RemoveFixPoint drops its last element.
C2_VertexChangeResets ==
    [][ (Updating("AddFixPoint") \/ Updating("RemoveFixPoint")) =>
          /\ outcome' = "ok"
          /\ graph'.random_points = << >>
          /\ graph'.max_iter = 0
          /\ graph'.cur_iter = 0
          /\ Updating("AddFixPoint") =>
                graph'.fix_points = graph.fix_points \o <<message'.point>>
          /\ Updating("RemoveFixPoint") =>
                /\ Len(graph'.fix_points) = Max(Len(graph.fix_points) - 1, 0)
                /\ IsPrefix(graph'.fix_points, graph.fix_points) ]_vars

\* AddFixPoint(p) has been processed on a set of one vertex
C2_Witness ==
    /\ Updated("AddFixPoint")
    /\ Len(graph.fix_points) = 2
    /\ graph.fix_points[2] = message.point
    /\ graph.random_points = << >>

\* C3: with a non-empty vertex set a step that processes SetMaxIter(k) ends
\* with max_iter = k and a sequence of length max(k, previous length) that
\* starts with the previous sequence; processing the same SetMaxIter(k) right
\* after it changes neither the sequence nor max_iter.
C3_GrowToMonotonicIdempotent ==
    [][ (Updating("SetMaxIter") /\ graph.fix_points # << >>) =>
          /\ outcome' = "ok"
          /\ graph'.max_iter = message'.iter
          /\ Len(graph'.random_points) =
                Max(message'.iter, Len(graph.random_points))
          /\ IsPrefix(graph.random_points, graph'.random_points)
          /\ (Updated("SetMaxIter") /\ message = message') =>
                /\ graph'.random_points = graph.random_points
                /\ graph'.max_iter = graph.max_iter ]_vars

\* SetMaxIter(1) processed while two points exist: both are kept
C3_Witness ==
    /\ Updated("SetMaxIter")
    /\ message.iter = 1
    /\ Len(graph.random_points) = 2
    /\ graph.max_iter = 1

IsMidpoint(p, a, b) == 2 * p.x = a.x + b.x /\ 2 * p.y = a.y + b.y

\* C4: every generated point is the exact componentwise midpoint of some
\* fixed vertex and its base point: the generated point before it, or the
\* first fixed vertex for the first generated point.
C4_GeneratedPointsAreMidpoints ==
    \A i \in 1 .. Len(graph.random_points) :
        /\ graph.fix_points # << >>
        /\ \E v \in 1 .. Len(graph.fix_points) :
              IsMidpoint(graph.random_points[i], graph.fix_points[v],
                         IF i = 1 THEN graph.fix_points[1]
                                  ELSE graph.random_points[i - 1])

\* two points generated from two distinct vertices, the second from the first
C4_Witness ==
    /\ Len(graph.random_points) = 2
    /\ Len(graph.fix_points) = 2
    /\ graph.fix_points[1] # graph.fix_points[2]
    /\ graph.random_points[1] # graph.fix_points[1]
    /\ graph.random_points[2] # graph.random_points[1]

\* C5: a step that processes SetCurIter(c) ends with cur_iter = min(c,
\* max_iter), max_iter being the value the step started with, which the step
\* leaves alone; so cur_iter <= max_iter right after it.
C5_SetCurIterClamps ==
    [][ Updating("SetCurIter") =>
          /\ graph'.cur_iter = Min(message'.iter, graph.max_iter)
          /\ graph'.max_iter = graph.max_iter
          /\ graph'.cur_iter <= graph'.max_iter ]_vars

\* a slider value above max_iter was clamped to it
C5_Witness ==
    /\ Updated("SetCurIter")
    /\ message.iter > graph.max_iter
    /\ graph.max_iter > 0
    /\ graph.cur_iter = graph.max_iter

\* C6: the render cache is never stale.  A filled cache holds the geometry
\* of the current state at the size it was filled for; every processed
\* message leaves the cache empty; a paint pass returns the geometry of the
\* current state; a paint pass right after a paint pass of the same size
\* returns the same geometry without rebuilding it, and the first paint pass
\* after a message rebuilds it.
C6_CacheNeverStale ==
    /\ [](graph.cache.filled =>
            /\ ~slice_panics(graph)
            /\ graph.cache.geometry = Geometry(graph, graph.cache.bounds))
    /\ []((handler = "update" /\ outcome = "ok") => ~graph.cache.filled)
    /\ []((handler = "draw" /\ outcome = "ok") =>
            /\ graph.cache.filled
            /\ graph.cache.geometry = geom
            /\ graph.cache.bounds = geom.border)
    /\ [][ /\ (handler = "draw" /\ handler' = "draw" /\ outcome' = "ok"
                 /\ geom'.border = geom.border) =>
                    (geom' = geom /\ ~rebuilt')
           /\ (handler = "update" /\ handler' = "draw") => rebuilt' ]_vars

\* a paint pass served drawn points from the cache
C6_Witness ==
    /\ handler = "draw"
    /\ ~rebuilt
    /\ graph.cache.filled
    /\ Len(geom.points) = 2
    /\ Len(geom.circles) = 2

\* C7: a step of the user interface that calls gen_rand_point (a SetMaxIter
\* above the length of the sequence) starts with a non-empty vertex set and
\* does not panic.
C7_GenerationNeedsVertex ==
    [][ (Updating("SetMaxIter") /\ Len(graph.random_points) < message'.iter) =>
          (graph.fix_points # << >> /\ outcome' = "ok") ]_vars

\* the max_iter slider has made the program generate points
C7_Witness ==
    /\ Updated("SetMaxIter")
    /\ status = "-"
    /\ message.iter = 2
    /\ Len(graph.random_points) = 2
    /\ outcome = "ok"

\* C8: a step that processes RemoveFixPoint while the vertex set is empty
\* does not fail and leaves the vertex set and the sequence empty and both
\* counters zero, as they were.
C8_RemoveOnEmptyIsNoOp ==
    [][ (Updating("RemoveFixPoint") /\ graph.fix_points = << >>) =>
          /\ outcome' = "ok"
          /\ graph'.fix_points = << >>
          /\ graph'.random_points = graph.random_points
          /\ graph'.random_points = << >>
          /\ graph'.max_iter = graph.max_iter
          /\ graph'.max_iter = 0
          /\ graph'.cur_iter = graph.cur_iter
          /\ graph'.cur_iter = 0 ]_vars

\* a right click on the canvas was processed and no vertex is left
C8_Witness ==
    /\ Updated("RemoveFixPoint")
    /\ status = "Captured"
    /\ graph.fix_points = << >>
    /\ outcome = "ok"

\* C9 as stated: SetMaxIter(m) processed with an empty vertex set fails,
\* whatever m.  SetMaxIter(0) does not: the loop body never runs.
C9_EmptySetAlwaysFails ==
    (Updated("SetMaxIter") /\ graph.fix_points = << >>) => outcome = "panic"

\* C9, amended: SetMaxIter(m) processed with an empty vertex set fails (the
\* random index is drawn from an empty range) exactly when m >= 1; max_iter
\* is m by then and nothing was generated.  SetMaxIter(0) succeeds.
C9_EmptySetFailsIffPositive ==
    (Updated("SetMaxIter") /\ graph.fix_points = << >>) =>
        /\ outcome = "panic" <=> message.iter >= 1
        /\ graph.max_iter = message.iter
        /\ graph.random_points = << >>

\* SetMaxIter(1) has failed on the empty vertex set
C9_Witness ==
    /\ Updated("SetMaxIter")
    /\ graph.fix_points = << >>
    /\ message.iter = 1
    /\ outcome = "panic"

\* C10: in every step the old sequence is a prefix of the new one, or the
\* step processes AddFixPoint or RemoveFixPoint and the new sequence is
\* empty; a slider message never shortens the sequence.
C10_AppendOnlyBetweenResets ==
    [][ /\ \/ IsPrefix(graph.random_points, graph'.random_points)
           \/ /\ Updating("AddFixPoint") \/ Updating("RemoveFixPoint")
              /\ graph'.random_points = << >>
        /\ (Updating("SetMaxIter") \/ Updating("SetCurIter")) =>
              Len(graph'.random_points) >= Len(graph.random_points) ]_vars

\* the cur_iter slider was lowered to 0 and both points are still there
C10_Witness ==
    /\ Updated("SetCurIter")
    /\ message.iter = 0
    /\ graph.cur_iter = 0
    /\ graph.max_iter = 2
    /\ Len(graph.random_points) = 2

\* the orbit of vertex set V under the index choices ch: point i is halfway
\* between V[ch[i]] and point i - 1, the first one halfway from V[0]
RECURSIVE Orbit(_, _)
Orbit(V, ch) ==
    IF ch = << >>
    THEN << >>
    ELSE LET n == Len(ch)
             before == Orbit(V, SubSeq(ch, 1, n - 1))
             base == IF n = 1 THEN V[1] ELSE before[n - 1]
             dest == V[ch[n] + 1]
         IN  Append(before, [x |-> (dest.x + base.x) \div 2,
                             y |-> (dest.y + base.y) \div 2])

\* C11: the generated sequence is a function of the vertex set and of the
\* indices the random source returned: it is the orbit of fix_points under
\* drawn, however the growth was split over SetMaxIter messages and whatever
\* SetCurIter or DrawCurIter messages came in between.
C11_OrbitDeterminedByChoices ==
    /\ Len(drawn) = Len(graph.random_points)
    /\ graph.random_points = Orbit(graph.fix_points, drawn)

\* grown to 2 with cur_iter at 1, so a cur_iter change came before the last
\* SetMaxIter; the two points come from different vertices
C11_Witness ==
    /\ Updated("SetMaxIter")
    /\ message.iter = 2
    /\ graph.cur_iter = 1
    /\ drawn = <<1, 0>>
    /\ Len(graph.random_points) = 2
    /\ graph.fix_points[1] # graph.fix_points[2]

\* the smallest and the largest of the values f takes on the vertices
MinOver(V, f(_)) == CHOOSE m \in {f(V[i]) : i \in 1 .. Len(V)} :
                        \A j \in 1 .. Len(V) : m <= f(V[j])
MaxOver(V, f(_)) == CHOOSE m \in {f(V[i]) : i \in 1 .. Len(V)} :
                        \A j \in 1 .. Len(V) : m >= f(V[j])

XOf(p) == p.x
YOf(p) == p.y

InBoundingBox(p, V) ==
    /\ V # << >>
    /\ MinOver(V, XOf) <= p.x /\ p.x <= MaxOver(V, XOf)
    /\ MinOver(V, YOf) <= p.y /\ p.y <= MaxOver(V, YOf)

\* C12: every generated point lies in the bounding box of the current fixed
\* vertices; and once (100,100), (0,0), (200,0) are the vertices and
\* SetMaxIter(5) was processed, the sequence has exactly 5 points.
C12_PointsInBoundingBox ==
    /\ \A i \in 1 .. Len(graph.random_points) :
          InBoundingBox(graph.random_points[i], graph.fix_points)
    /\ (Updated("SetMaxIter") /\ message.iter = ScenarioIter
          /\ graph.fix_points = ScenarioVertices) =>
             Len(graph.random_points) = ScenarioIter

\* the scenario has run: three vertices, grown to ScenarioIter points, the
\* first one halfway between (100,100) and (200,0)
C12_Witness ==
    /\ graph.fix_points = ScenarioVertices
    /\ Updated("SetMaxIter")
    /\ message.iter = ScenarioIter
    /\ Len(graph.random_points) = ScenarioIter
    /\ graph.random_points[1] = Point(150, 50)
    /\ graph.random_points[ScenarioIter] # graph.random_points[1]

\* C13: a step that processes SetCurIter leaves the vertex set, the generated
\* sequence and max_iter as they were, and does not fail.
C13_SetCurIterFrame ==
    [][ Updating("SetCurIter") =>
          /\ outcome' = "ok"
          /\ graph'.fix_points = graph.fix_points
          /\ graph'.random_points = graph.random_points
          /\ graph'.max_iter = graph.max_iter ]_vars

\* the cur_iter slider was set below max_iter with two points generated
C13_Witness ==
    /\ Updated("SetCurIter")
    /\ message.iter = 1
    /\ graph.cur_iter = 1
    /\ graph.max_iter = 2
    /\ Len(graph.random_points) = 2
    /\ Len(graph.fix_points) = 2

\* the cursor is available and inside the rectangle of the canvas
InCanvas(c) ==
    /\ c # Unavailable
    /\ CanvasBounds.x <= c.x /\ c.x < CanvasBounds.x + BoundWidth
    /\ CanvasBounds.y <= c.y /\ c.y < CanvasBounds.y + BoundHeight

\* the cursor position relative to the canvas
InCanvasPosition(c) ==
    [x |-> (c.x - CanvasBounds.x) * Scale, y |-> (c.y - CanvasBounds.y) * Scale]

\* the step hands no message to Application::update: nothing but the record
\* of the handler call changes
NoMessageStep ==
    /\ handler' = "canvas"
    /\ message' = NoMessage
    /\ graph' = graph
    /\ outcome' = outcome
    /\ drawn' = drawn

\* C14: an event with the cursor off the canvas is ignored and produces no
\* message, so the graph (vertices, sequence, counters, cache) is unchanged;
\* with the cursor on the canvas a left press produces AddFixPoint(position),
\* which is processed, a right press produces RemoveFixPoint, and any other
\* event produces no message.
C14_CanvasEvents ==
    [][ input'.event # "-" =>
          LET e == input'.event
              c == input'.cursor
          IN  /\ ~InCanvas(c) => (status' = "Ignored" /\ NoMessageStep)
              /\ (InCanvas(c) /\ e = "LeftPressed") =>
                    /\ status' = "Captured"
                    /\ Updating("AddFixPoint")
                    /\ message'.point = InCanvasPosition(c)
                    /\ graph'.fix_points =
                          Append(graph.fix_points, InCanvasPosition(c))
              /\ (InCanvas(c) /\ e = "RightPressed") =>
                    /\ status' = "Captured"
                    /\ Updating("RemoveFixPoint")
              /\ (InCanvas(c) /\ e \notin {"LeftPressed", "RightPressed"}) =>
                    NoMessageStep ]_vars

\* a left press off the canvas was ignored: the vertices, the points and the
\* filled cache are all still there
C14_Witness ==
    /\ handler = "canvas"
    /\ input = [event |-> "LeftPressed", cursor |-> [x |-> 50, y |-> 10]]
    /\ status = "Ignored"
    /\ Len(graph.fix_points) = 1
    /\ Len(graph.random_points) = 2
    /\ graph.cache.filled

\* C15: in every state the user interface can reach, cur_iter and max_iter
\* are at most the length of the sequence and cur_iter is not negative, so
\* the slice random_points[0..cur_iter] of the paint pass is in range and no
\* handler has panicked.
C15_SliceInRange ==
    /\ 0 <= graph.cur_iter
    /\ graph.cur_iter <= Len(graph.random_points)
    /\ graph.max_iter <= Len(graph.random_points)
    /\ ~slice_panics(graph)
    /\ outcome = "ok"

\* max_iter was lowered to 1 after cur_iter was raised to 2, and the state
\* was painted
C15_Witness ==
    /\ handler = "draw"
    /\ graph.max_iter = 1
    /\ graph.cur_iter = 2
    /\ Len(graph.random_points) = 2
    /\ Len(geom.points) = 2

\* C16: in every state the user interface can reach, an empty vertex set
\* comes with an empty sequence and both counters zero.
C16_EmptySetMeansNoPoints ==
    graph.fix_points = << >> =>
        /\ graph.random_points = << >>
        /\ graph.max_iter = 0
        /\ graph.cur_iter = 0

\* a RemoveFixPoint was processed and no vertex is left: no point and no
\* count is left either
C16_Witness ==
    /\ Updated("RemoveFixPoint")
    /\ graph.fix_points = << >>
    /\ graph.random_points = << >>
    /\ graph.max_iter = 0
    /\ graph.cur_iter = 0
    /\ ~graph.cache.filled

====
